---- MODULE Spec2Model ----
(***************************************************************************)
(* The profile-merge engine of the 4th Arrow Tournament Control            *)
(* application (src/src/commands/merge.py) over the users table            *)
(* (src/core/models.py, src/storage/database.py), the audit log            *)
(* (src/core/logging.py), the user lookups                                 *)
(* (src/src/commands/list_users.py, src/core/profile 2.py) and the         *)
(* creation of users (src/src/commands/create.py).                         *)
(*                                                                         *)
(* Strings are tuples of one-character tokens; Python's None is the        *)
(* one-element tuple holding the token "None", which no string contains.   *)
(***************************************************************************)
EXTENDS Integers, Sequences, FiniteSets, TLC

VARIABLES
    db,               \* committed rows of the users table: id -> row
    log,              \* logs/merge_profile.log: sequence of entries
    lock,             \* row locks: id -> holding invocation (0 = free)
    pc,               \* position of each invocation in merge_profiles
    arg,              \* arguments of the running call
    session,          \* the SQLAlchemy session of the call
    merge_users,      \* ids of the merge users loaded so far
    idx,              \* index of the running for-loop
    resolved_values,  \* result of _resolve_conflicts for the current merge user
    pending,          \* conflicting fields still to be prompted for
    all_conflicts,    \* merge user id -> conflicts (dry run)
    all_resolutions,  \* field -> resolution tag
    ret,              \* value the call returns, and how
    exc,              \* exception propagating out of the with block
    events,           \* what the call has done to the session so far
    pre,              \* the store and the log when the call started
    calls,            \* number of merge and create calls made so far
    database_url,     \* the store DatabaseManager was constructed over
    operands,         \* the arguments a pure function is applied to
    result            \* what the pure function, or create_user, returned

vars == <<db, log, lock, pc, arg, session, merge_users, idx, resolved_values,
          pending, all_conflicts, all_resolutions, ret, exc, events, pre,
          calls, database_url, operands, result>>

\* What no step of merge_profiles assigns.
outside == <<database_url, operands, result>>

locals == <<merge_users, idx, resolved_values, pending, all_conflicts,
            all_resolutions>>

----------------------------------------------------------------------------
(* Bounds *)

\* Longest merge_ids list a call is given.
MaxMergeIds == 2

\* Number of merge_profiles calls in one behaviour.
MaxCalls == 2

\* Longest run of answers the operator types at the prompts of one
\* _resolve_conflicts call.
MaxAnswers == 2

(* Values *)

None == <<"None">>
Timestamp == <<"now">>

Procs == {1, 2}
UserIds == {1, 2, 3}
NoId == 0

conflict_fields == <<"email", "phone", "address", "usbc_id", "tnba_id">>
mergeable_fields == <<"email", "phone", "address", "usbc_id", "tnba_id">>
RESOLUTION_MODES == {"prefer_main", "prefer_merge", "prefer_longest"}
NoMode == "None"

Range(s) == {s[i] : i \in 1..Len(s)}

\* Python truthiness of an Optional[str].
Truthy(v) == v # None /\ v # <<>>

RECURSIVE LStrip(_)
LStrip(s) == IF s # <<>> /\ Head(s) = " " THEN LStrip(Tail(s)) ELSE s

RECURSIVE RStrip(_)
RStrip(s) == IF s # <<>> /\ s[Len(s)] = " "
             THEN RStrip(SubSeq(s, 1, Len(s) - 1)) ELSE s

\* str.strip()
Strip(s) == RStrip(LStrip(s))

\* str.lower() on the prompt's answers
Lower(c) == IF c = "S" THEN "s" ELSE c

IdChar == <<"1", "2", "3">>

User(id, email, phone, address, usbc_id, tnba_id) ==
    [id |-> id, first_name |-> <<"f">>, last_name |-> <<IdChar[id]>>,
     email |-> email, phone |-> phone, address |-> address,
     usbc_id |-> usbc_id, tnba_id |-> tnba_id, deleted_at |-> None]

\* is_deleted that never reports a deletion.
is_deleted_never(u) == FALSE

is_deleted(u) == u.deleted_at # None

\* soft_delete that leaves deleted_at unset.
soft_delete_unset(u) == u

\* soft_delete that also gives the email up.
soft_delete_clearing(u) == [u EXCEPT !.deleted_at = Timestamp, !.email = None]

soft_delete(u) == [u EXCEPT !.deleted_at = Timestamp]

\* The unique constraint of users.email: NULLs never collide.
EmailUnique(table) ==
    \A i, j \in DOMAIN table :
        i # j /\ table[i].email # None => table[i].email # table[j].email

----------------------------------------------------------------------------
(* The pure parts of the merge engine *)

_detect_conflicts(main_user, merge_user) ==
    LET cf == {f \in Range(conflict_fields) :
                  /\ ~(~Truthy(main_user[f]) /\ ~Truthy(merge_user[f]))
                  /\ Truthy(main_user[f])
                  /\ Truthy(merge_user[f])
                  /\ Strip(main_user[f]) # Strip(merge_user[f])}
    IN  [f \in cf |-> <<main_user[f], merge_user[f]>>]

\* ResolveAuto whose prefer_longest gives a tie to the merge user.
ResolveAutoTieToMerge(c, resolution_mode) ==
    CASE resolution_mode = "prefer_main"    -> <<c[1], "kept_primary">>
      [] resolution_mode = "prefer_merge"   -> <<c[2], "kept_duplicate">>
      [] resolution_mode = "prefer_longest" ->
            IF Len(c[2]) >= Len(c[1]) THEN <<c[2], "kept_longest">>
                                      ELSE <<c[1], "kept_longest">>
      [] OTHER                              -> <<c[1], "kept_primary">>

\* One conflict resolved automatically (resolution_mode or no_interactive).
ResolveAuto(c, resolution_mode) ==
    CASE resolution_mode = "prefer_main"    -> <<c[1], "kept_primary">>
      [] resolution_mode = "prefer_merge"   -> <<c[2], "kept_duplicate">>
      [] resolution_mode = "prefer_longest" ->
            IF Len(c[2]) > Len(c[1]) THEN <<c[2], "kept_longest">>
                                     ELSE <<c[1], "kept_longest">>
      [] OTHER                              -> <<c[1], "kept_primary">>

\* One conflict resolved by the operator's answer; <<>> when it is invalid.
\* ResolveChoice that takes any other input for a skip.
ResolveChoiceLenient(c, choice) ==
    CASE choice = "1" -> <<c[1], "kept_primary">>
      [] choice = "2" -> <<c[2], "kept_duplicate">>
      [] OTHER        -> <<c[1], "kept_primary">>

ResolveChoice(c, choice) ==
    CASE choice = "1" -> <<c[1], "kept_primary">>
      [] choice = "2" -> <<c[2], "kept_duplicate">>
      [] choice = "s" -> <<c[1], "kept_primary">>
      [] OTHER        -> <<>>

\* FilledFields without the test that the main user's value is empty.
FilledFieldsOverwriting(main_user, merge_user) ==
    {f \in Range(mergeable_fields) : Truthy(merge_user[f])}

\* The fields _merge_non_conflicting_fields fills.
FilledFields(main_user, merge_user) ==
    {f \in Range(mergeable_fields) :
        ~Truthy(main_user[f]) /\ Truthy(merge_user[f])}

\* _merge_non_conflicting_fields that assigns nothing.
_merge_non_conflicting_fields_noop(main_user, merge_user) == main_user

\* The main user after _merge_non_conflicting_fields.
_merge_non_conflicting_fields(main_user, merge_user) ==
    [f \in DOMAIN main_user |->
        IF f \in FilledFields(main_user, merge_user)
        THEN merge_user[f] ELSE main_user[f]]

\* The main user after the setattr loop over resolved_values.
ApplyResolved(main_user, rv) ==
    [f \in DOMAIN main_user |->
        IF f \in DOMAIN rv THEN rv[f][1] ELSE main_user[f]]

\* An assignment in place of the update: the earlier entries are lost.
UpdateReplacing(d, e) == e

\* dict.update: the entries of d overwritten and extended by those of e.
Update(d, e) ==
    [k \in DOMAIN d \cup DOMAIN e |-> IF k \in DOMAIN e THEN e[k] ELSE d[k]]

\* The conflicting fields in dict order.
Ordered(c) == SelectSeq(conflict_fields, LAMBDA f : f \in DOMAIN c)

\* What the operator may type at the prompt.
Choices == {"1", "2", "s", "S", "x"}

\* The interactive branch of _resolve_conflicts over the fields still to be
\* asked about: each answer is lowered, an invalid one asks again, and when
\* the answers run out click.prompt waits with the rest unresolved.
RECURSIVE Asked(_, _, _)
Asked(conflicts, fields, answers) ==
    IF fields = <<>> \/ answers = <<>> THEN <<>>
    ELSE LET r == ResolveChoice(conflicts[Head(fields)], Lower(Head(answers)))
         IN  IF r = <<>>
             THEN Asked(conflicts, fields, Tail(answers))
             ELSE Update([f \in {Head(fields)} |-> r],
                         Asked(conflicts, Tail(fields), Tail(answers)))

\* _resolve_conflicts whose automatic branch tests resolution_mode alone.
_resolve_conflicts_mode_only(conflicts, resolution_mode, no_interactive, answers) ==
    IF resolution_mode # NoMode
    THEN [f \in DOMAIN conflicts |->
             ResolveAuto(conflicts[f], resolution_mode)]
    ELSE Asked(conflicts, Ordered(conflicts), answers)

_resolve_conflicts(conflicts, resolution_mode, no_interactive, answers) ==
    IF resolution_mode # NoMode \/ no_interactive
    THEN [f \in DOMAIN conflicts |->
             ResolveAuto(conflicts[f], resolution_mode)]
    ELSE Asked(conflicts, Ordered(conflicts), answers)

\* The list _merge_non_conflicting_fields returns.
filled_fields(main_user, merge_user) ==
    SelectSeq(mergeable_fields,
              LAMBDA f : f \in FilledFields(main_user, merge_user))

----------------------------------------------------------------------------
(* The store *)

Store1 ==
    << User(1, <<"a">>, None, None, None, None),
       User(2, <<"b">>, <<"5">>, None, None, None),
       User(3, None, <<"6", "6">>, <<"x">>, <<"v">>, None) >>

Store2 ==
    << User(1, <<"a">>, <<" ", "5">>, <<" ">>, None, <<"t">>),
       User(2, <<>>, <<"5">>, <<"x">>, <<"u">>, <<>>),
       User(3, None, <<"6">>, None, None, <<"w">>) >>

Store3 ==
    << User(1, <<"a">>, None, None, None, None),
       User(2, <<" ", "a">>, <<"5">>, None, None, None) >>

InitStores == {Store1, Store2, Store3}

\* Session.flush: an UPDATE per loaded object, setting the attributes that
\* were assigned a value other than the loaded one.
Flush(table, objs, clean) ==
    [i \in DOMAIN table |->
        IF i \in DOMAIN objs
        THEN [f \in DOMAIN table[i] |->
                 IF objs[i][f] # clean[i][f] THEN objs[i][f] ELSE table[i][f]]
        ELSE table[i]]

\* The stores the engine of DatabaseManager may be created over: the default
\* SQLite file, which the global db_manager uses, or a server named by the
\* database_url parameter.
DatabaseUrls == {"sqlite", "postgresql"}

\* Whether the store renders with_for_update() as SELECT ... FOR UPDATE and
\* holds the row until the transaction ends; the SQLite dialect renders
\* nothing for it, and its SELECT takes no lock that outlives the statement.
RowLocks == database_url # "sqlite"

NoSession == [open |-> FALSE, txn |-> "none", objs |-> <<>>, clean |-> <<>>]
NoArgs == [main_id |-> NoId, merge_ids |-> <<>>, dry_run |-> FALSE,
           resolution_mode |-> NoMode, no_interactive |-> FALSE]
NoRet == [code |-> -1, via |-> "none"]
Returns(code) == [code |-> code, via |-> "return"]

\* The merge_ids lists a call may be given: each duplicate is named once.
MergeIdLists ==
    {s \in UNION {[1..n -> UserIds] : n \in 0..MaxMergeIds} :
        \A i, j \in 1..Len(s) : i # j => s[i] # s[j]}

\* No pure function is being applied on its own.
NoGiven == [main_user |-> None, merge_user |-> None]
NoResult == [op |-> "none", resolution_mode |-> NoMode,
             no_interactive |-> FALSE, out |-> <<>>]

\* Nothing has been called yet, over one of the stores.
Started(stores, urls) ==
    /\ db \in stores
    /\ log = <<>>
    /\ lock = [i \in UserIds |-> 0]
    /\ pc = [p \in Procs |-> "idle"]
    /\ arg = [p \in Procs |-> NoArgs]
    /\ session = [p \in Procs |-> NoSession]
    /\ merge_users = [p \in Procs |-> <<>>]
    /\ idx = [p \in Procs |-> 0]
    /\ resolved_values = [p \in Procs |-> <<>>]
    /\ pending = [p \in Procs |-> <<>>]
    /\ all_conflicts = [p \in Procs |-> <<>>]
    /\ all_resolutions = [p \in Procs |-> <<>>]
    /\ ret = [p \in Procs |-> NoRet]
    /\ exc = [p \in Procs |-> "none"]
    /\ events = [p \in Procs |-> <<>>]
    /\ pre = [p \in Procs |-> [db |-> db, log |-> <<>>]]
    /\ calls = 0
    /\ database_url \in urls
    /\ operands = NoGiven
    /\ result = NoResult

\* The command runs over the global db_manager, the default SQLite file.
Init == Started(InitStores, {"sqlite"})

----------------------------------------------------------------------------
(* merge_profiles, one action per step *)

Ev(p, name, id) == events' = [events EXCEPT ![p] = Append(@, <<name, id>>)]

EvAll(p, evs) == events' = [events EXCEPT ![p] = @ \o evs]

\* return code, inside the with block
ReturnFromWith(p, code) ==
    /\ ret' = [ret EXCEPT ![p] = Returns(code)]
    /\ pc' = [pc EXCEPT ![p] = "with_exit"]

FieldNo(f) == CHOOSE i \in 1..Len(conflict_fields) : conflict_fields[i] = f

\* main_user read from the stored row instead of the session's object.
main_user_stored(p) == db[arg[p].main_id]

main_user(p) == session[p].objs[arg[p].main_id]

\* AfterLoop without the dry-run return.
AfterLoopNoPreview(p) ==
    IF ~arg[p].no_interactive THEN "confirm" ELSE "soft_delete"

\* Where the for-loop over merge_users goes when it is exhausted.
AfterLoop(p) ==
    IF arg[p].dry_run THEN "preview"
    ELSE IF ~arg[p].no_interactive THEN "confirm"
    ELSE "soft_delete"

\* merge_profiles is called.
Call(p) ==
    /\ pc[p] = "idle"
    /\ calls < MaxCalls
    /\ calls' = calls + 1
    /\ \E m \in {NoId} \cup UserIds, ms \in MergeIdLists, d \in BOOLEAN,
          r \in RESOLUTION_MODES \cup {NoMode}, n \in BOOLEAN :
          arg' = [arg EXCEPT ![p] =
                     [main_id |-> m, merge_ids |-> ms, dry_run |-> d,
                      resolution_mode |-> r, no_interactive |-> n]]
    /\ pc' = [pc EXCEPT ![p] = "validate"]
    /\ pre' = [pre EXCEPT ![p] = [db |-> db, log |-> log]]
    /\ events' = [events EXCEPT ![p] = <<>>]
    /\ UNCHANGED <<db, log, lock, session, locals, ret, exc, outside>>

\* validate_merge_args without the self-merge check.
validate_merge_args_noself(p) ==
    /\ pc[p] = "validate"
    /\ IF \/ arg[p].main_id = NoId
          \/ arg[p].merge_ids = <<>>
       THEN /\ ret' = [ret EXCEPT ![p] = [code |-> 4, via |-> "SystemExit"]]
            /\ pc' = [pc EXCEPT ![p] = "done"]
       ELSE /\ pc' = [pc EXCEPT ![p] = "get_session"]
            /\ UNCHANGED ret
    /\ UNCHANGED <<db, log, lock, arg, session, locals, exc, events, pre, calls, outside>>

\* validate_merge_args: sys.exit(4) raises SystemExit, which no handler of
\* merge_profiles catches.
validate_merge_args(p) ==
    /\ pc[p] = "validate"
    /\ IF \/ arg[p].main_id = NoId
          \/ arg[p].merge_ids = <<>>
          \/ arg[p].main_id \in Range(arg[p].merge_ids)
       THEN /\ ret' = [ret EXCEPT ![p] = [code |-> 4, via |-> "SystemExit"]]
            /\ pc' = [pc EXCEPT ![p] = "done"]
       ELSE /\ pc' = [pc EXCEPT ![p] = "get_session"]
            /\ UNCHANGED ret
    /\ UNCHANGED <<db, log, lock, arg, session, locals, exc, events, pre, calls, outside>>

\* session = db_manager.get_session()
get_session(p) ==
    /\ pc[p] = "get_session"
    /\ session' = [session EXCEPT ![p].open = TRUE]
    /\ Ev(p, "get_session", 0)
    /\ pc' = [pc EXCEPT ![p] = "begin"]
    /\ UNCHANGED <<db, log, lock, arg, locals, ret, exc, pre, calls, outside>>

\* with session.begin():
Begin(p) ==
    /\ pc[p] = "begin"
    /\ session' = [session EXCEPT ![p].txn = "active"]
    /\ Ev(p, "begin", 0)
    /\ pc' = [pc EXCEPT ![p] = "lock_main"]
    /\ UNCHANGED <<db, log, lock, arg, locals, ret, exc, pre, calls, outside>>

\* session.query(User).filter_by(id=id).with_for_update().first():
\* over a store with row locks, waits while another transaction holds the row.
CanLock(p, id) == RowLocks /\ id \in DOMAIN db => lock[id] \in {0, p}

Locked(p, id) ==
    IF RowLocks /\ id \in DOMAIN db THEN [lock EXCEPT ![id] = p] ELSE lock

\* The identity map after the row is fetched: an object already loaded is
\* not replaced.
Fetched(objs, id) ==
    IF id \in DOMAIN objs THEN objs
    ELSE [i \in DOMAIN objs \cup {id} |-> IF i = id THEN db[id] ELSE objs[i]]

Loaded(p, id) == Fetched(session[p].objs, id)

\* The main user is fetched with a row lock.
LockMain(p) ==
    LET id == arg[p].main_id IN
    /\ pc[p] = "lock_main"
    /\ CanLock(p, id)
    /\ lock' = Locked(p, id)
    /\ IF id \notin DOMAIN db
       THEN /\ ReturnFromWith(p, 4)
            /\ EvAll(p, <<<<"lock", id>>, <<"return", 4>>>>)
            /\ UNCHANGED <<session, idx>>
       ELSE /\ session' = [session EXCEPT
                               ![p].objs = Loaded(p, id),
                               ![p].clean = Fetched(session[p].clean, id)]
            /\ IF is_deleted(db[id])
               THEN /\ ReturnFromWith(p, 4)
                    /\ EvAll(p, <<<<"lock", id>>, <<"return", 4>>>>)
                    /\ UNCHANGED idx
               ELSE /\ pc' = [pc EXCEPT ![p] = "lock_merge"]
                    /\ idx' = [idx EXCEPT ![p] = 1]
                    /\ Ev(p, "lock", id)
                    /\ UNCHANGED ret
    /\ UNCHANGED <<db, log, arg, merge_users, resolved_values, pending,
                   all_conflicts, all_resolutions, exc, pre, calls, outside>>

\* One iteration of the loop that fetches the merge users with row locks.
LockMerge(p) ==
    LET id == arg[p].merge_ids[idx[p]] IN
    /\ pc[p] = "lock_merge"
    /\ CanLock(p, id)
    /\ lock' = Locked(p, id)
    /\ IF id \notin DOMAIN db
       THEN /\ ReturnFromWith(p, 4)
            /\ EvAll(p, <<<<"lock", id>>, <<"return", 4>>>>)
            /\ UNCHANGED <<session, idx, merge_users>>
       ELSE /\ session' = [session EXCEPT
                               ![p].objs = Loaded(p, id),
                               ![p].clean = Fetched(session[p].clean, id)]
            /\ IF is_deleted(db[id])
               THEN /\ ReturnFromWith(p, 4)
                    /\ EvAll(p, <<<<"lock", id>>, <<"return", 4>>>>)
                    /\ UNCHANGED <<idx, merge_users>>
               ELSE /\ merge_users' = [merge_users EXCEPT ![p] = Append(@, id)]
                    /\ Ev(p, "lock", id)
                    /\ IF idx[p] = Len(arg[p].merge_ids)
                       THEN /\ pc' = [pc EXCEPT ![p] = "detect"]
                            /\ idx' = [idx EXCEPT ![p] = 1]
                       ELSE /\ pc' = pc
                            /\ idx' = [idx EXCEPT ![p] = @ + 1]
                    /\ UNCHANGED ret
    /\ UNCHANGED <<db, log, arg, resolved_values, pending,
                   all_conflicts, all_resolutions, exc, pre, calls, outside>>

merge_user(p) == session[p].objs[merge_users[p][idx[p]]]

\* The loop moves on to the next merge user, or ends.
NextMergeUser(p) ==
    IF idx[p] = Len(merge_users[p])
    THEN /\ pc' = [pc EXCEPT ![p] = AfterLoop(p)]
         /\ idx' = [idx EXCEPT ![p] = 0]
    ELSE /\ pc' = [pc EXCEPT ![p] = "detect"]
         /\ idx' = [idx EXCEPT ![p] = @ + 1]

\* Detect with the email check ahead of the dry-run test.
DetectEmailFirst(p) ==
    LET conflicts == _detect_conflicts(main_user(p), merge_user(p)) IN
    /\ pc[p] = "detect"
    /\ IF DOMAIN conflicts = {}
       THEN /\ IF arg[p].dry_run
               THEN NextMergeUser(p)
               ELSE pc' = [pc EXCEPT ![p] = "apply"] /\ UNCHANGED idx
            /\ UNCHANGED <<all_conflicts, resolved_values, pending, ret,
                           events>>
       ELSE IF /\ arg[p].no_interactive
               /\ arg[p].resolution_mode = NoMode
               /\ "email" \in DOMAIN conflicts
       THEN /\ ReturnFromWith(p, 2)
            /\ Ev(p, "return", 2)
            /\ UNCHANGED <<all_conflicts, resolved_values, pending, idx>>
       ELSE IF arg[p].dry_run
       THEN /\ all_conflicts' = [all_conflicts EXCEPT ![p] =
                   Update(@, [i \in {merge_user(p).id} |-> conflicts])]
            /\ NextMergeUser(p)
            /\ UNCHANGED <<resolved_values, pending, ret, events>>
       ELSE IF arg[p].resolution_mode # NoMode \/ arg[p].no_interactive
       THEN /\ resolved_values' = [resolved_values EXCEPT ![p] =
                   [f \in DOMAIN conflicts |->
                       ResolveAuto(conflicts[f], arg[p].resolution_mode)]]
            /\ pc' = [pc EXCEPT ![p] = "apply"]
            /\ UNCHANGED <<all_conflicts, pending, idx, ret, events>>
       ELSE /\ pending' = [pending EXCEPT ![p] = Ordered(conflicts)]
            /\ pc' = [pc EXCEPT ![p] = "prompt"]
            /\ UNCHANGED <<all_conflicts, resolved_values, idx, ret, events>>
    /\ UNCHANGED <<db, log, lock, arg, session, merge_users,
                   all_resolutions, exc, pre, calls, outside>>

\* The head of the loop body: _detect_conflicts, the dry-run record, the
\* email check and the automatic branch of _resolve_conflicts.
Detect(p) ==
    LET conflicts == _detect_conflicts(main_user(p), merge_user(p)) IN
    /\ pc[p] = "detect"
    /\ IF DOMAIN conflicts = {}
       THEN /\ IF arg[p].dry_run
               THEN NextMergeUser(p)
               ELSE pc' = [pc EXCEPT ![p] = "apply"] /\ UNCHANGED idx
            /\ UNCHANGED <<all_conflicts, resolved_values, pending, ret,
                           events>>
       ELSE IF arg[p].dry_run
       THEN /\ all_conflicts' = [all_conflicts EXCEPT ![p] =
                   Update(@, [i \in {merge_user(p).id} |-> conflicts])]
            /\ NextMergeUser(p)
            /\ UNCHANGED <<resolved_values, pending, ret, events>>
       ELSE IF /\ arg[p].no_interactive
               /\ arg[p].resolution_mode = NoMode
               /\ "email" \in DOMAIN conflicts
       THEN /\ ReturnFromWith(p, 2)
            /\ Ev(p, "return", 2)
            /\ UNCHANGED <<all_conflicts, resolved_values, pending, idx>>
       ELSE IF arg[p].resolution_mode # NoMode \/ arg[p].no_interactive
       THEN /\ resolved_values' = [resolved_values EXCEPT ![p] =
                   [f \in DOMAIN conflicts |->
                       ResolveAuto(conflicts[f], arg[p].resolution_mode)]]
            /\ pc' = [pc EXCEPT ![p] = "apply"]
            /\ UNCHANGED <<all_conflicts, pending, idx, ret, events>>
       ELSE /\ pending' = [pending EXCEPT ![p] = Ordered(conflicts)]
            /\ pc' = [pc EXCEPT ![p] = "prompt"]
            /\ UNCHANGED <<all_conflicts, resolved_values, idx, ret, events>>
    /\ UNCHANGED <<db, log, lock, arg, session, merge_users,
                   all_resolutions, exc, pre, calls, outside>>

\* One answer to click.prompt in the while-True loop of _resolve_conflicts.
Prompt(p) ==
    LET field == Head(pending[p])
        c     == <<main_user(p)[field], merge_user(p)[field]>>
    IN
    /\ pc[p] = "prompt"
    /\ \E choice \in Choices :
          LET r == ResolveChoice(c, Lower(choice)) IN
          IF r = <<>>
          THEN UNCHANGED <<resolved_values, pending, pc>>
          ELSE /\ resolved_values' = [resolved_values EXCEPT ![p] =
                      Update(@, [f \in {field} |-> r])]
               /\ pending' = [pending EXCEPT ![p] = Tail(@)]
               /\ pc' = [pc EXCEPT ![p] =
                      IF Tail(pending[p]) = <<>> THEN "apply" ELSE "prompt"]
    /\ UNCHANGED <<db, log, lock, arg, session, merge_users, idx,
                   all_conflicts, all_resolutions, ret, exc, events, pre, calls, outside>>

\* The rest of the loop body: the resolved values are assigned to the main
\* user, then _merge_non_conflicting_fields fills its empty fields.
Apply(p) ==
    LET rv       == resolved_values[p]
        resolved == ApplyResolved(main_user(p), rv)
        filled   == FilledFields(resolved, merge_user(p))
        merged   == _merge_non_conflicting_fields(resolved, merge_user(p))
        fo       == SelectSeq(mergeable_fields, LAMBDA f : f \in filled)
    IN
    /\ pc[p] = "apply"
    /\ session' = [session EXCEPT ![p].objs[arg[p].main_id] = merged]
    /\ all_resolutions' = [all_resolutions EXCEPT ![p] =
           Update(Update(@, [f \in DOMAIN rv |-> rv[f][2]]),
                  [f \in filled |-> "kept_duplicate"])]
    /\ resolved_values' = [resolved_values EXCEPT ![p] = <<>>]
    /\ EvAll(p, [i \in 1..Len(Ordered(rv)) |->
                    <<"resolved", FieldNo(Ordered(rv)[i])>>]
              \o [i \in 1..Len(fo) |-> <<"filled", FieldNo(fo[i])>>])
    /\ NextMergeUser(p)
    /\ UNCHANGED <<db, log, lock, arg, merge_users, pending, all_conflicts,
                   ret, exc, pre, calls, outside>>

\* _show_dry_run_preview, then return 0.
Preview(p) ==
    /\ pc[p] = "preview"
    /\ ReturnFromWith(p, 0)
    /\ Ev(p, "return", 0)
    /\ UNCHANGED <<db, log, lock, arg, session, locals, exc, pre, calls, outside>>

\* _confirm_merge: the operator answers click.confirm.
Confirm(p) ==
    /\ pc[p] = "confirm"
    /\ \E answer \in BOOLEAN :
          IF answer
          THEN /\ pc' = [pc EXCEPT ![p] = "soft_delete"]
               /\ UNCHANGED <<ret, events>>
          ELSE /\ ReturnFromWith(p, 5)
               /\ Ev(p, "return", 5)
    /\ UNCHANGED <<db, log, lock, arg, session, locals, exc, pre, calls, outside>>

\* Ctrl-C while click.prompt or click.confirm waits.
Interrupt(p) ==
    /\ pc[p] \in {"prompt", "confirm"}
    /\ exc' = [exc EXCEPT ![p] = "KeyboardInterrupt"]
    /\ pc' = [pc EXCEPT ![p] = "except"]
    /\ Ev(p, "interrupt", 0)
    /\ UNCHANGED <<db, log, lock, arg, session, locals, ret, pre, calls, outside>>

\* for merge_user in merge_users: merge_user.soft_delete()
SoftDelete(p) ==
    /\ pc[p] = "soft_delete"
    /\ session' = [session EXCEPT ![p].objs =
           [i \in DOMAIN @ |->
               IF i \in Range(merge_users[p]) THEN soft_delete(@[i]) ELSE @[i]]]
    /\ EvAll(p, [i \in 1..Len(merge_users[p]) |->
                    <<"soft_delete", merge_users[p][i]>>])
    /\ pc' = [pc EXCEPT ![p] = "commit"]
    /\ UNCHANGED <<db, log, lock, arg, locals, ret, exc, pre, calls, outside>>

\* The transaction ends: the row locks of p are released.
Released(p) == [i \in UserIds |-> IF lock[i] = p THEN 0 ELSE lock[i]]

\* TryCommit on a table without the unique constraint on email.
TryCommitUnconstrained(p, next) ==
    /\ db' = Flush(db, session[p].objs, session[p].clean)
    /\ lock' = Released(p)
    /\ session' = [session EXCEPT ![p].txn = "committed",
                                   ![p].clean = session[p].objs]
    /\ Ev(p, "commit", 0)
    /\ pc' = [pc EXCEPT ![p] = next]
    /\ UNCHANGED exc

\* Session.commit: flush, then COMMIT; the flush raises IntegrityError
\* (an SQLAlchemyError) when it breaks the unique constraint on email.
TryCommit(p, next) ==
    LET flushed == Flush(db, session[p].objs, session[p].clean) IN
    IF EmailUnique(flushed)
    THEN /\ db' = flushed
         /\ lock' = Released(p)
         /\ session' = [session EXCEPT ![p].txn = "committed",
                                        ![p].clean = session[p].objs]
         /\ Ev(p, "commit", 0)
         /\ pc' = [pc EXCEPT ![p] = next]
         /\ UNCHANGED exc
    ELSE /\ exc' = [exc EXCEPT ![p] = "SQLAlchemyError"]
         /\ pc' = [pc EXCEPT ![p] = "except"]
         /\ Ev(p, "db_error", 0)
         /\ UNCHANGED <<db, lock, session>>

\* merge_profiles without its session.commit(): the transaction is left
\* for the end of the with block to commit.
CommitDeferred(p) ==
    /\ pc[p] = "commit"
    /\ pc' = [pc EXCEPT ![p] = "log"]
    /\ UNCHANGED <<db, log, lock, arg, session, locals, ret, exc, events, pre,
                   calls, outside>>

\* session.commit()
Commit(p) ==
    /\ pc[p] = "commit"
    /\ TryCommit(p, "log")
    /\ UNCHANGED <<log, arg, locals, ret, pre, calls, outside>>

\* log_merge_event(main_id, merge_ids, all_resolutions), then return 0.
log_merge_event(p) ==
    /\ pc[p] = "log"
    /\ log' = Append(log, [event |-> "MERGE_PROFILE",
                           timestamp |-> Timestamp,
                           primary_id |-> arg[p].main_id,
                           merged_ids |-> arg[p].merge_ids,
                           field_resolutions |-> all_resolutions[p]])
    /\ ReturnFromWith(p, 0)
    /\ EvAll(p, <<<<"log", 0>>, <<"return", 0>>>>)
    /\ UNCHANGED <<db, lock, arg, session, locals, exc, pre, calls, outside>>

\* WithExit that leaves the transaction as the return found it.
WithExitLeavingOpen(p) ==
    /\ pc[p] = "with_exit"
    /\ pc' = [pc EXCEPT ![p] = "finally"]
    /\ UNCHANGED <<db, log, lock, arg, session, locals, ret, exc, events, pre,
                   calls, outside>>

\* A return leaves the with block: SessionTransaction.__exit__ without an
\* exception commits the transaction when it is still active.
WithExit(p) ==
    /\ pc[p] = "with_exit"
    /\ IF session[p].txn = "active"
       THEN TryCommit(p, "finally")
       ELSE /\ pc' = [pc EXCEPT ![p] = "finally"]
            /\ UNCHANGED <<db, lock, session, events, exc>>
    /\ UNCHANGED <<log, arg, locals, ret, pre, calls, outside>>

\* Every except clause returning the status of a database error.
HandlerStatusAllOne(e) == 1

\* The status each except clause of merge_profiles returns.
HandlerStatus(e) == IF e = "KeyboardInterrupt" THEN 5 ELSE 1

\* Except with neither rollback: the transaction stays as the exception
\* found it.
ExceptWithoutRollback(p) ==
    /\ pc[p] = "except"
    /\ ret' = [ret EXCEPT ![p] = Returns(HandlerStatus(exc[p]))]
    /\ exc' = [exc EXCEPT ![p] = "none"]
    /\ pc' = [pc EXCEPT ![p] = "finally"]
    /\ UNCHANGED <<db, log, lock, arg, session, locals, events, pre, calls,
                   outside>>

\* An exception leaves the with block (__exit__ rolls an active transaction
\* back) and reaches its except clause: session.rollback(), return status.
Except(p) ==
    /\ pc[p] = "except"
    /\ IF session[p].txn = "active"
       THEN /\ session' = [session EXCEPT ![p].txn = "rolled_back",
                                          ![p].objs = <<>>,
                                          ![p].clean = <<>>]
            /\ lock' = Released(p)
            /\ Ev(p, "rollback", 0)
       ELSE UNCHANGED <<session, lock, events>>
    /\ ret' = [ret EXCEPT ![p] = Returns(HandlerStatus(exc[p]))]
    /\ exc' = [exc EXCEPT ![p] = "none"]
    /\ pc' = [pc EXCEPT ![p] = "finally"]
    /\ UNCHANGED <<db, log, arg, locals, pre, calls, outside>>

\* finally: session.close()
Finally(p) ==
    /\ pc[p] = "finally"
    /\ session' = [session EXCEPT ![p].open = FALSE, ![p].objs = <<>>,
                                   ![p].clean = <<>>]
    /\ Ev(p, "close", 0)
    /\ pc' = [pc EXCEPT ![p] = "done"]
    /\ UNCHANGED <<db, log, lock, arg, locals, ret, exc, pre, calls, outside>>

\* merge_profiles has returned (or SystemExit has left it); its frame is gone.
Return(p) ==
    /\ pc[p] = "done"
    /\ pc' = [pc EXCEPT ![p] = "idle"]
    /\ arg' = [arg EXCEPT ![p] = NoArgs]
    /\ session' = [session EXCEPT ![p] = NoSession]
    /\ merge_users' = [merge_users EXCEPT ![p] = <<>>]
    /\ idx' = [idx EXCEPT ![p] = 0]
    /\ resolved_values' = [resolved_values EXCEPT ![p] = <<>>]
    /\ pending' = [pending EXCEPT ![p] = <<>>]
    /\ all_conflicts' = [all_conflicts EXCEPT ![p] = <<>>]
    /\ all_resolutions' = [all_resolutions EXCEPT ![p] = <<>>]
    /\ ret' = [ret EXCEPT ![p] = NoRet]
    /\ events' = [events EXCEPT ![p] = <<>>]
    /\ pre' = [pre EXCEPT ![p] = [db |-> db, log |-> log]]
    /\ UNCHANGED <<db, log, lock, exc, calls, outside>>

Step(p) ==
    \/ Call(p)
    \/ validate_merge_args(p)
    \/ get_session(p)
    \/ Begin(p)
    \/ LockMain(p)
    \/ LockMerge(p)
    \/ Detect(p)
    \/ Prompt(p)
    \/ Apply(p)
    \/ Preview(p)
    \/ Confirm(p)
    \/ Interrupt(p)
    \/ SoftDelete(p)
    \/ Commit(p)
    \/ log_merge_event(p)
    \/ WithExit(p)
    \/ Except(p)
    \/ Finally(p)
    \/ Return(p)

\* One invocation at a time: the program is single-threaded.
Next == Step(1)

Spec == Init /\ [][Next]_vars

----------------------------------------------------------------------------
(* Failures of the store and of the audit log *)

\* A query, or the flush or COMMIT of a commit, raises an SQLAlchemyError.
StorageError(p) ==
    /\ \/ pc[p] \in {"lock_main", "lock_merge", "commit"}
       \/ pc[p] = "with_exit" /\ session[p].txn = "active"
    /\ exc' = [exc EXCEPT ![p] = "SQLAlchemyError"]
    /\ pc' = [pc EXCEPT ![p] = "except"]
    /\ Ev(p, "db_error", 0)
    /\ UNCHANGED <<db, log, lock, arg, session, locals, ret, pre, calls,
                   outside>>

\* log_merge_event raises: ValueError from the schema validation, or OSError
\* from creating the directory or opening the file. No line is written.
LogError(p) ==
    /\ pc[p] = "log"
    /\ exc' = [exc EXCEPT ![p] = "Exception"]
    /\ pc' = [pc EXCEPT ![p] = "except"]
    /\ Ev(p, "log_error", 0)
    /\ UNCHANGED <<db, log, lock, arg, session, locals, ret, pre, calls,
                   outside>>

NextFault ==
    \/ Step(1)
    \/ StorageError(1)
    \/ LogError(1)

\* The failures do not depend on the rows: one store is enough, with and
\* without row locks.
InitFault == Started({Store1}, DatabaseUrls)

SpecFault == InitFault /\ [][NextFault]_vars

----------------------------------------------------------------------------
(* Users created between the merges *)

Store4 ==
    << User(1, <<"a">>, None, None, <<"u">>, None) >>

\* The values create_user is called with.
CreateFirsts == {<<"f">>, <<" ">>}
CreateEmails == {None, <<"a">>, <<"b">>, <<" ", "b">>}
CreateUsbcIds == {None, <<"u">>}
CreateTnbaIds == {None, <<"t">>}

\* create_user(first, last, usbc_id=, tnba_id=, email=), while no merge runs:
\* the names are validated, the values stripped, the email and the two ids
\* looked up among all rows, then the row is added and committed under the
\* unique constraint on email.
create_user ==
    /\ \A p \in Procs : pc[p] = "idle"
    /\ calls < MaxCalls
    /\ Len(db) < Cardinality(UserIds)
    /\ calls' = calls + 1
    /\ \E first \in CreateFirsts, email \in CreateEmails,
          usbc_id \in CreateUsbcIds, tnba_id \in CreateTnbaIds :
          LET Clean(v) == IF Truthy(v) THEN Strip(v) ELSE None
              user == [id |-> Len(db) + 1,
                       first_name |-> Strip(first),
                       last_name |-> <<IdChar[Len(db) + 1]>>,
                       email |-> Clean(email), phone |-> None,
                       address |-> None, usbc_id |-> Clean(usbc_id),
                       tnba_id |-> Clean(tnba_id), deleted_at |-> None]
              Exists(f, v) == \E i \in DOMAIN db : db[i][f] = Strip(v)
              outcome ==
                  IF ~Truthy(Strip(first)) THEN "ValueError"
                  ELSE IF Truthy(email) /\ Exists("email", email)
                  THEN "IntegrityError"
                  ELSE IF Truthy(usbc_id) /\ Exists("usbc_id", usbc_id)
                  THEN "IntegrityError"
                  ELSE IF Truthy(tnba_id) /\ Exists("tnba_id", tnba_id)
                  THEN "IntegrityError"
                  ELSE IF ~EmailUnique(Append(db, user))
                  THEN "IntegrityError"
                  ELSE "created"
          IN  /\ db' = IF outcome = "created" THEN Append(db, user) ELSE db
              /\ result' = [NoResult EXCEPT !.op = "create",
                                            !.out = <<outcome>>]
    /\ pre' = [p \in Procs |-> [db |-> db', log |-> log]]
    /\ UNCHANGED <<log, lock, pc, arg, session, locals, ret, exc, events,
                   database_url, operands>>

NextCreate ==
    \/ Step(1)
    \/ create_user

\* Stores with room for a new row.
InitCreate == Started({Store3, Store4}, {"sqlite"})

SpecCreate == InitCreate /\ [][NextCreate]_vars

----------------------------------------------------------------------------
(* A dry run, then the merge it previewed *)

\* merge_profiles is called with dry_run=True.
CallPreview ==
    /\ pc[1] = "idle"
    /\ calls < MaxCalls
    /\ calls' = calls + 1
    /\ \E m \in UserIds, ms \in MergeIdLists \ {<<>>},
          r \in RESOLUTION_MODES \cup {NoMode}, n \in BOOLEAN :
          arg' = [arg EXCEPT ![1] =
                     [main_id |-> m, merge_ids |-> ms, dry_run |-> TRUE,
                      resolution_mode |-> r, no_interactive |-> n]]
    /\ pc' = [pc EXCEPT ![1] = "validate"]
    /\ pre' = [pre EXCEPT ![1] = [db |-> db, log |-> log]]
    /\ events' = [events EXCEPT ![1] = <<>>]
    /\ UNCHANGED <<db, log, lock, session, locals, ret, exc, outside>>

\* Once the preview has been shown, merge_profiles is called again with the
\* same arguments and dry_run=False. What the dry run recorded is kept for
\* the comparison.
CallMerge ==
    /\ pc[1] = "done" /\ arg[1].dry_run /\ ret[1] = Returns(0)
    /\ pc[2] = "idle"
    /\ calls < MaxCalls
    /\ calls' = calls + 1
    /\ arg' = [arg EXCEPT ![2] = [arg[1] EXCEPT !.dry_run = FALSE]]
    /\ pc' = [pc EXCEPT ![2] = "validate"]
    /\ pre' = [pre EXCEPT ![2] = [db |-> db, log |-> log]]
    /\ events' = [events EXCEPT ![2] = <<>>]
    /\ UNCHANGED <<db, log, lock, session, locals, ret, exc, outside>>

\* The steps of a call that is under way.
Run(p) ==
    \/ validate_merge_args(p)
    \/ get_session(p)
    \/ Begin(p)
    \/ LockMain(p)
    \/ LockMerge(p)
    \/ Detect(p)
    \/ Prompt(p)
    \/ Apply(p)
    \/ Preview(p)
    \/ Confirm(p)
    \/ Interrupt(p)
    \/ SoftDelete(p)
    \/ Commit(p)
    \/ log_merge_event(p)
    \/ WithExit(p)
    \/ Except(p)
    \/ Finally(p)

NextPreview ==
    \/ CallPreview
    \/ CallMerge
    \/ Run(1)
    \/ Run(2)

InitPreview == Started(InitStores, {"sqlite"})

SpecPreview == InitPreview /\ [][NextPreview]_vars

----------------------------------------------------------------------------
(* Two merge_profiles calls at once, each in a process of its own *)

\* The arguments of the calls that run at once: merges that name a duplicate
\* and never wait for the operator.
ConcurrentArgs ==
    {[main_id |-> m, merge_ids |-> ms, dry_run |-> FALSE,
      resolution_mode |-> r, no_interactive |-> TRUE] :
        m \in UserIds, ms \in MergeIdLists \ {<<>>},
        r \in {NoMode, "prefer_main"}}

CallConcurrent(p) ==
    /\ pc[p] = "idle"
    /\ calls < MaxCalls
    /\ calls' = calls + 1
    /\ \E a \in ConcurrentArgs : arg' = [arg EXCEPT ![p] = a]
    /\ pc' = [pc EXCEPT ![p] = "validate"]
    /\ pre' = [pre EXCEPT ![p] = [db |-> db, log |-> log]]
    /\ events' = [events EXCEPT ![p] = <<>>]
    /\ UNCHANGED <<db, log, lock, session, locals, ret, exc, outside>>

\* The row the call is about to fetch with with_for_update().
WaitsFor(p) ==
    IF pc[p] = "lock_main" THEN arg[p].main_id
    ELSE IF pc[p] = "lock_merge" THEN arg[p].merge_ids[idx[p]]
    ELSE NoId

\* p waits for a row lock that q holds.
Blocked(p, q) ==
    /\ RowLocks
    /\ WaitsFor(p) \in DOMAIN db
    /\ lock[WaitsFor(p)] = q

\* The store finds two transactions waiting for each other and fails the
\* statement of one of them.
DeadlockDetected(p) ==
    /\ \E q \in Procs \ {p} : Blocked(p, q) /\ Blocked(q, p)
    /\ exc' = [exc EXCEPT ![p] = "SQLAlchemyError"]
    /\ pc' = [pc EXCEPT ![p] = "except"]
    /\ Ev(p, "db_error", 0)
    /\ UNCHANGED <<db, log, lock, arg, session, locals, ret, pre, calls,
                   outside>>

StepConcurrent(p) ==
    \/ CallConcurrent(p)
    \/ validate_merge_args(p)
    \/ get_session(p)
    \/ Begin(p)
    \/ LockMain(p)
    \/ LockMerge(p)
    \/ Detect(p)
    \/ Apply(p)
    \/ SoftDelete(p)
    \/ Commit(p)
    \/ log_merge_event(p)
    \/ WithExit(p)
    \/ Except(p)
    \/ Finally(p)
    \/ Return(p)
    \/ DeadlockDetected(p)

NextConcurrent == StepConcurrent(1) \/ StepConcurrent(2)

InitConcurrent == Started({Store1}, DatabaseUrls)

SpecConcurrent == InitConcurrent /\ [][NextConcurrent]_vars

----------------------------------------------------------------------------
(* The pure functions applied on their own to a pair of users *)

GivenEmails == {None, <<>>, <<" ">>, <<"a">>, <<" ", "a">>, <<"a", "b">>,
                <<"b", "a">>}
GivenPhones == {None, <<"5">>, <<"6", "6">>}
GivenAddresses == {None, <<"x">>}

\* The pairs of users the functions are applied to.
Givens ==
    {[main_user |-> User(1, e1, p1, a1, <<"u">>, None),
      merge_user |-> User(2, e2, p2, a2, None, None)] :
        e1 \in GivenEmails, e2 \in GivenEmails,
        p1 \in GivenPhones, p2 \in GivenPhones,
        a1 \in GivenAddresses, a2 \in GivenAddresses}

\* What the operator types during one _resolve_conflicts call.
AnswerStreams == UNION {[1..n -> Choices] : n \in 0..MaxAnswers}

InitApplied ==
    /\ db = Store1
    /\ log = <<>>
    /\ lock = [i \in UserIds |-> 0]
    /\ pc = [p \in Procs |-> "idle"]
    /\ arg = [p \in Procs |-> NoArgs]
    /\ session = [p \in Procs |-> NoSession]
    /\ merge_users = [p \in Procs |-> <<>>]
    /\ idx = [p \in Procs |-> 0]
    /\ resolved_values = [p \in Procs |-> <<>>]
    /\ pending = [p \in Procs |-> <<>>]
    /\ all_conflicts = [p \in Procs |-> <<>>]
    /\ all_resolutions = [p \in Procs |-> <<>>]
    /\ ret = [p \in Procs |-> NoRet]
    /\ exc = [p \in Procs |-> "none"]
    /\ events = [p \in Procs |-> <<>>]
    /\ pre = [p \in Procs |-> [db |-> db, log |-> <<>>]]
    /\ calls = 0
    /\ database_url = "sqlite"
    /\ operands \in Givens
    /\ result = NoResult

merge_state == <<db, log, lock, pc, arg, session, locals, ret, exc, events,
                 pre, calls, database_url>>

\* conflicts = _detect_conflicts(main_user, merge_user)
DetectConflicts ==
    /\ result.op = "none"
    /\ result' = [result EXCEPT
           !.op = "detect",
           !.out = <<_detect_conflicts(operands.main_user, operands.merge_user)>>]
    /\ UNCHANGED <<merge_state, operands>>

\* _resolve_conflicts(main_user, merge_user, conflicts, resolution_mode,
\* no_interactive) while the operator types some answers.
ResolveConflicts ==
    /\ result.op = "none"
    /\ \E r \in RESOLUTION_MODES \cup {NoMode}, n \in BOOLEAN,
          answers \in AnswerStreams :
          result' = [op |-> "resolve", resolution_mode |-> r,
                     no_interactive |-> n,
                     out |-> <<_resolve_conflicts(
                                  _detect_conflicts(operands.main_user,
                                                    operands.merge_user),
                                  r, n, answers)>>]
    /\ UNCHANGED <<merge_state, operands>>

\* A second run on the same pair with the same mode and flag, while the
\* operator types some other answers.
ResolveConflictsAgain ==
    /\ result.op = "resolve"
    /\ Len(result.out) = 1
    /\ \E answers \in AnswerStreams :
          result' = [result EXCEPT !.out = Append(@,
                        _resolve_conflicts(
                            _detect_conflicts(operands.main_user,
                                              operands.merge_user),
                            result.resolution_mode, result.no_interactive,
                            answers))]
    /\ UNCHANGED <<merge_state, operands>>

\* filled = _merge_non_conflicting_fields(main_user, merge_user): the main
\* user is updated in place, the list of filled fields returned.
MergeNonConflicting ==
    /\ result.op = "none"
    /\ result' = [result EXCEPT
           !.op = "fill",
           !.out = <<[main_user |->
                         _merge_non_conflicting_fields(operands.main_user,
                                                       operands.merge_user),
                      filled |-> filled_fields(operands.main_user,
                                               operands.merge_user)]>>]
    /\ UNCHANGED <<merge_state, operands>>

\* The same call once more, on the main user the first call left.
MergeNonConflictingAgain ==
    /\ result.op = "fill"
    /\ Len(result.out) = 1
    /\ result' = [result EXCEPT
           !.out = Append(@,
               [main_user |->
                   _merge_non_conflicting_fields(result.out[1].main_user,
                                                 operands.merge_user),
                filled |-> filled_fields(result.out[1].main_user,
                                         operands.merge_user)])]
    /\ UNCHANGED <<merge_state, operands>>

\* _resolve_conflicts in its interactive branch, what the operator typed kept
\* beside what the call resolved.
ResolveInteractively ==
    /\ result.op = "none"
    /\ \E answers \in AnswerStreams :
          result' = [op |-> "ask", resolution_mode |-> NoMode,
                     no_interactive |-> FALSE,
                     out |-> <<answers,
                               _resolve_conflicts(
                                   _detect_conflicts(operands.main_user,
                                                     operands.merge_user),
                                   NoMode, FALSE, answers)>>]
    /\ UNCHANGED <<merge_state, operands>>

NextApplied ==
    \/ DetectConflicts
    \/ ResolveInteractively
    \/ ResolveConflicts
    \/ ResolveConflictsAgain
    \/ MergeNonConflicting
    \/ MergeNonConflictingAgain

SpecApplied == InitApplied /\ [][NextApplied]_vars

----------------------------------------------------------------------------
(* User lookups *)

\* value ILIKE '%sub%'; NULL matches nothing.
Contains(sub, v) ==
    /\ v # None
    /\ \E i \in 0..(Len(v) - Len(sub)) : SubSeq(v, i + 1, i + Len(sub)) = sub

\* The rows build_enhanced_user_query selects, ordered by id.
build_enhanced_user_query(table, filters) ==
    LET Has(k) == k \in DOMAIN filters
        Test(u) ==
            /\ u.deleted_at = None
            /\ Has("first") => Contains(filters["first"], u.first_name)
            /\ Has("last") => Contains(filters["last"], u.last_name)
            /\ Has("email") => Contains(filters["email"], u.email)
            /\ Has("phone") => Contains(filters["phone"], u.phone)
            /\ Has("address") => Contains(filters["address"], u.address)
            /\ Has("usbc_id") => u.usbc_id = filters["usbc_id"]
            /\ Has("tnba_id") => u.tnba_id = filters["tnba_id"]
    IN  SelectSeq([i \in 1..Len(table) |-> table[i]], Test)

\* list_users / list_users_enhanced: the filters that are set and not blank,
\* stripped, then the query.
list_users(table, given) ==
    LET set == {k \in DOMAIN given : Truthy(given[k]) /\ Truthy(Strip(given[k]))}
    IN  build_enhanced_user_query(table, [k \in set |-> Strip(given[k])])

\* The rows get_profile may return (none: it returns None). first() without
\* an ORDER BY returns any matching row.
get_profile(table, user_id, email, usbc_id, tnba_id) ==
    LET rows(Test(_)) == {table[i] : i \in {j \in DOMAIN table : Test(table[j])}}
        ById(u) == u.id = user_id
        ByEmail(u) == u.email = email
        ByUsbc(u) == u.usbc_id = usbc_id
        ByTnba(u) == u.tnba_id = tnba_id
    IN  IF user_id # NoId THEN rows(ById)
        ELSE IF email # None THEN rows(ByEmail)
        ELSE IF usbc_id # None THEN rows(ByUsbc)
        ELSE IF tnba_id # None THEN rows(ByTnba)
        ELSE {}

\* The filters the lookups are tried with.
FilterKeys == {"first", "last", "email", "phone", "address", "usbc_id",
               "tnba_id"}
FilterValues == {<<"a">>, <<"5">>, <<" ", "6">>, <<"f">>, <<"2">>, <<"v">>,
                 <<"w">>, <<" ">>}
GivenFilters ==
    {<<>>} \cup {[k \in {key} |-> v] : key \in FilterKeys, v \in FilterValues}

----------------------------------------------------------------------------
(* Observers *)

Done(p) == pc[p] = "done"

Happened(p, name, id) == <<name, id>> \in Range(events[p])

StoreAsBefore(p) == db = pre[p].db /\ log = pre[p].log

ArgsRejected(a) ==
    a.main_id = NoId \/ a.merge_ids = <<>> \/ a.main_id \in Range(a.merge_ids)

\* The record the id named before the call is missing or soft-deleted.
Unusable(p, id) ==
    id \notin DOMAIN pre[p].db \/ pre[p].db[id].deleted_at # None

\* The ids soft-deleted by the merges an audit log records.
MergedIds(l) == UNION {Range(l[i].merged_ids) : i \in 1..Len(l)}

\* The fields the running call resolved or gap-filled on the main user.
TouchedFields(p) ==
    {conflict_fields[e[2]] :
        e \in {x \in Range(events[p]) : x[1] \in {"resolved", "filled"}}}

----------------------------------------------------------------------------
(* Claims *)

\* C1: a dry-run call, whatever its duplicates, conflicts, resolution_mode
\* and no_interactive, leaves the store as it was: no deleted_at changes, no
\* field of the primary changes, and the audit log gains no line.
C1_DryRunPurity ==
    \A p \in Procs : pc[p] # "idle" /\ arg[p].dry_run => StoreAsBefore(p)

\* A dry run of two duplicates that found conflicts has returned 0.
C1_Witness ==
    \E p \in Procs :
        /\ Done(p) /\ arg[p].dry_run /\ ret[p] = Returns(0)
        /\ Len(arg[p].merge_ids) = 2
        /\ DOMAIN all_conflicts[p] # {}

\* C2: when the primary or any duplicate, at any position, is missing or
\* already soft-deleted, the call ends with status 4 (returned, when the
\* arguments pass validation) and the store and the audit log are unchanged.
C2_AllOrNothing ==
    \A p \in Procs :
        /\ Done(p)
        /\ \/ Unusable(p, arg[p].main_id)
           \/ \E i \in 1..Len(arg[p].merge_ids) : Unusable(p, arg[p].merge_ids[i])
        => /\ ret[p].code = 4
           /\ ~ArgsRejected(arg[p]) => ret[p] = Returns(4)
           /\ StoreAsBefore(p)

\* A call whose first duplicate is usable and whose second is soft-deleted
\* has returned 4.
C2_Witness ==
    \E p \in Procs :
        /\ Done(p) /\ ~ArgsRejected(arg[p]) /\ ~arg[p].dry_run
        /\ Len(arg[p].merge_ids) = 2
        /\ ~Unusable(p, arg[p].main_id)
        /\ ~Unusable(p, arg[p].merge_ids[1])
        /\ arg[p].merge_ids[2] \in DOMAIN pre[p].db
        /\ pre[p].db[arg[p].merge_ids[2]].deleted_at # None
        /\ ret[p] = Returns(4)

\* C3: a call whose merge_ids contains main_id, whose main_id is missing or
\* whose merge_ids is empty is rejected by validation with status 4 before a
\* session is obtained, a transaction begun or a row lock requested.
C3_RejectedBeforeSession ==
    \A p \in Procs :
        pc[p] # "idle" /\ ArgsRejected(arg[p]) =>
            /\ pc[p] \in {"validate", "done"}
            /\ events[p] = <<>>
            /\ session[p] = NoSession
            /\ \A i \in UserIds : lock[i] # p
            /\ Done(p) => ret[p].code = 4 /\ StoreAsBefore(p)

\* A self-merge has been rejected.
C3_Witness ==
    \E p \in Procs :
        /\ Done(p)
        /\ arg[p].main_id \in Range(arg[p].merge_ids)
        /\ ret[p].code = 4

\* C4: when the non-interactive email check without a resolution mode stops
\* the merge, at the first or a later duplicate, the status is 2 and no
\* mutation survives: the store and the audit log are as before the call.
C4_EmailConflictNoMutation ==
    \A p \in Procs :
        Done(p) /\ Happened(p, "return", 2) =>
            ret[p] = Returns(2) /\ StoreAsBefore(p)

\* C5: when the operator declines the confirmation, the status is 5 and no
\* mutation is committed: the store and the audit log are as before the call.
C5_DeclineNoMutation ==
    \A p \in Procs :
        Done(p) /\ Happened(p, "return", 5) =>
            ret[p] = Returns(5) /\ StoreAsBefore(p)

C7_SoftDeleteFinality ==
    /\ \A d \in MergedIds(log) : db[d].deleted_at # None
    /\ \A p \in Procs :
          /\ Done(p)
          /\ ({arg[p].main_id} \cup Range(arg[p].merge_ids))
                 \cap MergedIds(pre[p].log) # {}
          => ret[p].code = 4 /\ StoreAsBefore(p)

\* A second call named the duplicate of an earlier merge as its primary, with
\* a usable duplicate, and returned 4.
C7_Witness ==
    \E p \in Procs :
        /\ Done(p) /\ ~ArgsRejected(arg[p])
        /\ arg[p].main_id \in MergedIds(pre[p].log)
        /\ ~Unusable(p, arg[p].merge_ids[1])
        /\ ret[p] = Returns(4)

\* C8: a duplicate soft-deleted by a merge is in no result of list_users,
\* whatever the filter, and get_profile by id, email, usbc_id or tnba_id never
\* returns it.
C8_DeletedExcludedFromLookups ==
    \A d \in MergedIds(log) :
        /\ \A given \in GivenFilters :
              \A i \in 1..Len(list_users(db, given)) :
                  list_users(db, given)[i].id # d
        /\ db[d] \notin get_profile(db, d, None, None, None)
        /\ db[d] \notin get_profile(db, NoId, db[d].email, None, None)
        /\ db[d] \notin get_profile(db, NoId, None, db[d].usbc_id, None)
        /\ db[d] \notin get_profile(db, NoId, None, None, db[d].tnba_id)

\* C9: a successful merge that is not a dry run appends exactly one entry to
\* the audit log, with the call's primary id, its merge_ids in the caller's
\* order, and a resolution for exactly the fields that were conflict-resolved
\* or gap-filled.
C9_AuditCompleteness ==
    \A p \in Procs :
        Done(p) /\ ret[p] = Returns(0) /\ ~arg[p].dry_run =>
            /\ Len(log) = Len(pre[p].log) + 1
            /\ SubSeq(log, 1, Len(pre[p].log)) = pre[p].log
            /\ log[Len(log)].event = "MERGE_PROFILE"
            /\ log[Len(log)].primary_id = arg[p].main_id
            /\ log[Len(log)].merged_ids = arg[p].merge_ids
            /\ DOMAIN log[Len(log)].field_resolutions = TouchedFields(p)

\* A merge of two duplicates that resolved a conflict and filled a gap has
\* returned 0.
C9_Witness ==
    \E p \in Procs :
        /\ Done(p) /\ ret[p] = Returns(0) /\ ~arg[p].dry_run
        /\ Len(arg[p].merge_ids) = 2
        /\ \E e \in Range(events[p]) : e[1] = "resolved"
        /\ \E e \in Range(events[p]) : e[1] = "filled"

\* C10: the non-interactive prefer_merge merge of a primary and one duplicate
\* with different emails, the primary's phone empty and the duplicate's not,
\* returns 0, leaves the primary with the duplicate's email and phone and the
\* duplicate soft-deleted, and writes one audit entry with field_resolutions
\* {email: kept_duplicate, phone: kept_duplicate}.
C10_PreferDuplicateExample ==
    \A p \in Procs :
        LET m == arg[p].main_id
            d == arg[p].merge_ids[1]
            M == pre[p].db[m]
            D == pre[p].db[d]
        IN  /\ Done(p) /\ ~ArgsRejected(arg[p])
            /\ Len(arg[p].merge_ids) = 1
            /\ ~arg[p].dry_run /\ arg[p].no_interactive
            /\ arg[p].resolution_mode = "prefer_merge"
            /\ ~Unusable(p, m) /\ ~Unusable(p, d)
            /\ Truthy(M.email) /\ Truthy(D.email)
            /\ Strip(M.email) # Strip(D.email)
            /\ ~Truthy(M.phone) /\ Truthy(D.phone)
            /\ \A f \in {"address", "usbc_id", "tnba_id"} : ~Truthy(D[f])
            => /\ ret[p] = Returns(0)
               /\ db[m].email = D.email
               /\ db[m].phone = D.phone
               /\ db[d] = [D EXCEPT !.deleted_at = Timestamp]
               /\ Len(log) = Len(pre[p].log) + 1
               /\ log[Len(log)].field_resolutions =
                      [f \in {"email", "phone"} |-> "kept_duplicate"]

\* C11: _detect_conflicts reports a field exactly when both users' values are
\* non-empty after trimming whitespace and the trimmed values differ; a
\* value that is null, empty or only whitespace gives no conflict.
C11_ConflictIffNonEmptyAndDifferent ==
    result.op = "detect" =>
        \A f \in Range(conflict_fields) :
            LET a == operands.main_user[f]
                b == operands.merge_user[f]
            IN  f \in DOMAIN result.out[1] <=>
                    /\ a # None /\ Strip(a) # <<>>
                    /\ b # None /\ Strip(b) # <<>>
                    /\ Strip(a) # Strip(b)

\* C12: a second _merge_non_conflicting_fields on the same pair leaves the
\* main user as the first left it and returns an empty list.
C12_GapFillIdempotent ==
    result.op = "fill" /\ Len(result.out) = 2 =>
        /\ result.out[2].main_user = result.out[1].main_user
        /\ result.out[2].filled = <<>>

\* The first of two applications filled two fields.
C12_Witness ==
    /\ result.op = "fill" /\ Len(result.out) = 2
    /\ Len(result.out[1].filled) = 2
    /\ result.out[1].main_user # operands.main_user

\* C13: with a resolution mode, or with none and no_interactive set, two
\* runs of _resolve_conflicts on the same pair return the same mapping,
\* whatever the operator types during either.
C13_ResolutionDeterministic ==
    /\ result.op = "resolve" /\ Len(result.out) = 2
    /\ result.resolution_mode # NoMode \/ result.no_interactive
    => /\ DOMAIN result.out[1] = DOMAIN result.out[2]
       /\ \A f \in DOMAIN result.out[1] :
              result.out[1][f] = result.out[2][f]

\* Two runs without a mode and with no_interactive set have resolved two
\* conflicting fields.
C13_Witness ==
    /\ result.op = "resolve" /\ Len(result.out) = 2
    /\ result.resolution_mode = NoMode /\ result.no_interactive
    /\ Cardinality(DOMAIN result.out[2]) = 2

\* C14: under prefer_longest every conflicting field gets the merge user's
\* value when it is strictly longer than the main user's and the main
\* user's value otherwise, a tie included, and the tag kept_longest.
C14_PreferLongest ==
    result.op = "resolve" /\ result.resolution_mode = "prefer_longest" =>
        LET conflicts == _detect_conflicts(operands.main_user,
                                           operands.merge_user)
        IN  \A i \in 1..Len(result.out) :
                /\ DOMAIN result.out[i] = DOMAIN conflicts
                /\ \A f \in DOMAIN conflicts :
                      LET a == operands.main_user[f]
                          b == operands.merge_user[f]
                      IN  /\ result.out[i][f][2] = "kept_longest"
                          /\ Len(b) > Len(a) => result.out[i][f][1] = b
                          /\ Len(b) <= Len(a) => result.out[i][f][1] = a

\* prefer_longest has resolved a tie between two different emails and a
\* phone conflict in which the merge user's value is the longer.
C14_Witness ==
    /\ result.op = "resolve" /\ result.resolution_mode = "prefer_longest"
    /\ DOMAIN result.out[1] = {"email", "phone"}
    /\ Len(operands.main_user.email) = Len(operands.merge_user.email)
    /\ result.out[1]["email"][1] = operands.main_user.email
    /\ Len(operands.merge_user.phone) > Len(operands.main_user.phone)
    /\ result.out[1]["phone"][1] = operands.merge_user.phone

\* C15: when the audit logger fails after the commit, the merge is not
\* rolled back: every duplicate stays soft-deleted, the primary keeps the
\* values it was given, and no audit line is written.
C15_LogFailureKeepsMerge ==
    \A p \in Procs :
        Happened(p, "log_error", 0) =>
            LET m == arg[p].main_id
                olds(f) == {pre[p].db[d][f] : d \in Range(arg[p].merge_ids)}
            IN  /\ Happened(p, "commit", 0)
                /\ ~Happened(p, "rollback", 0)
                /\ \A d \in Range(arg[p].merge_ids) :
                      db[d] = [pre[p].db[d] EXCEPT !.deleted_at = Timestamp]
                /\ \A f \in DOMAIN all_resolutions[p] :
                      /\ Happened(p, "filled", FieldNo(f)) =>
                            /\ ~Truthy(pre[p].db[m][f])
                            /\ Truthy(db[m][f])
                            /\ db[m][f] \in olds(f)
                      /\ all_resolutions[p][f] = "kept_duplicate" =>
                            db[m][f] \in olds(f)
                /\ \A f \in DOMAIN db[m] \ DOMAIN all_resolutions[p] :
                      db[m][f] = pre[p].db[m][f]
                /\ log = pre[p].log

\* The audit logger failed after a merge of two duplicates that filled a
\* field of the primary, and the call has ended.
C15_Witness ==
    \E p \in Procs :
        /\ Done(p) /\ Happened(p, "log_error", 0)
        /\ Len(arg[p].merge_ids) = 2
        /\ \E e \in Range(events[p]) : e[1] = "filled"
        /\ db # pre[p].db

\* C16: each failure class ends with a status of its own; in particular a
\* call whose audit log write failed ends with a status that is neither the
\* one a storage failure ends with nor 0.
C16_DistinctStatuses ==
    \A p \in Procs :
        Done(p) /\ Happened(p, "log_error", 0) =>
            /\ ret[p].code # HandlerStatus("SQLAlchemyError")
            /\ ret[p].code # 0

\* C17: an SQLAlchemyError raised while the rows are fetched or the
\* transaction is committed ends the call with status 1, the transaction
\* rolled back whole, and the store and the audit log as before the call.
C17_StorageErrorRollsBack ==
    \A p \in Procs :
        Happened(p, "db_error", 0) =>
            /\ pc[p] \in {"except", "finally", "done"}
            /\ pc[p] # "except" =>
                  /\ ret[p] = Returns(1)
                  /\ session[p].txn = "rolled_back"
                  /\ Happened(p, "rollback", 0)
                  /\ \A i \in UserIds : lock[i] # p
            /\ ~Happened(p, "commit", 0)
            /\ StoreAsBefore(p)

\* The commit of a merge that had assigned fields of the primary and
\* soft-deleted its duplicate raised, and the call has ended.
C17_Witness ==
    \E p \in Procs :
        /\ Done(p) /\ Happened(p, "db_error", 0)
        /\ TouchedFields(p) # {}
        /\ \E e \in Range(events[p]) : e[1] = "soft_delete"
        /\ ret[p] = Returns(1)

\* C18: a dry run with valid arguments whose records all exist and are not
\* soft-deleted never waits at a prompt and returns 0, whatever its
\* resolution_mode and no_interactive and whatever conflicts it finds.
C18_DryRunReturnsZero ==
    \A p \in Procs :
        /\ pc[p] # "idle" /\ arg[p].dry_run /\ ~ArgsRejected(arg[p])
        /\ \A id \in {arg[p].main_id} \cup Range(arg[p].merge_ids) :
              ~Unusable(p, id)
        => /\ pc[p] \notin {"prompt", "confirm"}
           /\ ~Happened(p, "return", 2)
           /\ Done(p) => ret[p] = Returns(0)

\* A dry run without a mode and with no_interactive set found an email
\* conflict and returned 0.
C18_Witness ==
    \E p \in Procs :
        /\ Done(p) /\ arg[p].dry_run /\ arg[p].no_interactive
        /\ arg[p].resolution_mode = NoMode
        /\ \E d \in DOMAIN all_conflicts[p] :
              "email" \in DOMAIN all_conflicts[p][d]
        /\ ret[p] = Returns(0)

C20_NoRace ==
    \A p, q \in Procs :
        p # q =>
            /\ session[p].txn = "active" /\ session[q].txn = "active" =>
                  DOMAIN session[p].objs \cap DOMAIN session[q].objs = {}
            /\ /\ Done(p) /\ ret[p] = Returns(0)
               /\ Done(q) /\ ret[q] = Returns(0)
               => Range(arg[p].merge_ids) \cap Range(arg[q].merge_ids) = {}

\* C21: whenever merge_profiles has opened a session and returned, on any
\* path (success, dry run, not found, email conflict, cancel, interrupt,
\* storage error, unexpected error), the transaction was ended by a commit or
\* a rollback and the session closed before the return, and the call holds no
\* row lock.
C21_TransactionEndedBeforeReturn ==
    \A p \in Procs :
        Done(p) /\ Happened(p, "get_session", 0) =>
            /\ session[p].txn \in {"committed", "rolled_back"}
            /\ Happened(p, "commit", 0) \/ Happened(p, "rollback", 0)
            /\ ~session[p].open
            /\ events[p][Len(events[p])] = <<"close", 0>>
            /\ \A i \in UserIds : lock[i] # p

\* Over a store with row locks, a merge the operator declined has returned 5
\* after locking its rows.
C21_Witness ==
    \E p \in Procs :
        /\ Done(p) /\ ret[p] = Returns(5)
        /\ RowLocks
        /\ Happened(p, "lock", arg[p].main_id)
        /\ ~Happened(p, "interrupt", 0)
        /\ session[p].txn = "committed"

\* C22: merge_profiles called with main_id among merge_ids returns the
\* integer 4 to its caller: it neither exits the process nor lets an exception
\* out, whatever dry_run, resolution_mode and no_interactive are.
C22_SelfMergeReturnsFour ==
    \A p \in Procs :
        Done(p) /\ arg[p].main_id \in Range(arg[p].merge_ids) =>
            ret[p] = Returns(4)

\* C23: no merge, successful or not, changes the id, first name or last name
\* of any record, and the only change to a duplicate is setting deleted_at:
\* its email, phone, address, usbc_id and tnba_id stay as they were. This
\* holds of the stored rows and of the objects the session has loaded.
C23_DuplicatesAndNamesUntouched ==
    \A p \in Procs :
        pc[p] # "idle" =>
            LET old == pre[p].db
                Same(u, i) == /\ u.id = old[i].id
                              /\ u.first_name = old[i].first_name
                              /\ u.last_name = old[i].last_name
                Dup(u, i) == u \in {old[i], [old[i] EXCEPT !.deleted_at = Timestamp]}
            IN  /\ DOMAIN db = DOMAIN old
                /\ \A i \in DOMAIN db :
                       /\ Same(db[i], i)
                       /\ i \in Range(arg[p].merge_ids) => Dup(db[i], i)
                /\ \A i \in DOMAIN session[p].objs :
                       /\ Same(session[p].objs[i], i)
                       /\ i \in Range(arg[p].merge_ids) =>
                              Dup(session[p].objs[i], i)

\* A merge of two duplicates has returned 0: the primary has a field it took
\* from a duplicate, and both duplicates are soft-deleted.
C23_Witness ==
    \E p \in Procs :
        /\ Done(p) /\ ret[p] = Returns(0) /\ ~arg[p].dry_run
        /\ Len(arg[p].merge_ids) = 2
        /\ db[arg[p].main_id] # pre[p].db[arg[p].main_id]
        /\ \A i \in Range(arg[p].merge_ids) :
               /\ db[i].deleted_at = Timestamp
               /\ pre[p].db[i].deleted_at = None

\* C24: within one non-dry-run merge the duplicates are processed one at a
\* time in the order of merge_ids, and the k-th duplicate is detected and
\* gap-filled against the primary as duplicates 1..k-1 left it: the primary
\* then holds values of itself and the earlier duplicates only, has every
\* field filled that one of them had, and the conflicts detected are those
\* between that primary and the k-th duplicate.
C24_InOrderOnAccumulatedValues ==
    \A p \in Procs :
        ~arg[p].dry_run /\ pc[p] \in {"detect", "prompt", "apply"} =>
            LET k    == idx[p]
                ids  == arg[p].merge_ids
                old  == pre[p].db
                main == session[p].objs[arg[p].main_id]
                dup  == session[p].objs[ids[k]]
                seen(f) == {old[arg[p].main_id][f]}
                               \cup {old[ids[j]][f] : j \in 1..(k - 1)}
                detected == DOMAIN resolved_values[p] \cup Range(pending[p])
            IN  /\ merge_users[p] = ids
                /\ dup = old[ids[k]]
                /\ \A f \in Range(mergeable_fields) :
                       /\ main[f] \in seen(f)
                       /\ (\E v \in seen(f) : Truthy(v)) => Truthy(main[f])
                /\ pc[p] \in {"prompt", "apply"} =>
                       detected = DOMAIN _detect_conflicts(main, dup)

\* The second duplicate conflicts with the primary on a phone number the
\* primary took from the first duplicate.
C24_Witness ==
    \E p \in Procs :
        /\ ~arg[p].dry_run /\ pc[p] = "apply" /\ idx[p] = 2
        /\ "phone" \in DOMAIN resolved_values[p]
        /\ ~Truthy(pre[p].db[arg[p].main_id].phone)
        /\ session[p].objs[arg[p].main_id].phone
               = pre[p].db[arg[p].merge_ids[1]].phone

\* C25: once the call has written to a record (a field assigned on the
\* primary, or a duplicate soft-deleted) the row locks on the primary and on
\* every duplicate are held by the call, and they stay held while its
\* transaction is open.
C25_LocksHeldBeforeWrites ==
    \A p \in Procs :
        session[p].txn = "active" /\ session[p].objs # session[p].clean =>
            \A id \in {arg[p].main_id} \cup Range(arg[p].merge_ids) :
                lock[id] = p

\* C26: the audit logger is invoked only after every duplicate has been
\* soft-deleted and the transaction committed, and the log gains no entry for
\* a merge that was rejected, failed, cancelled, interrupted or a dry run: a
\* call adds at most the one entry of its own committed merge.
C26_LogOnlyAfterCommit ==
    \A p \in Procs :
        LET Merged == /\ session[p].txn = "committed"
                      /\ Happened(p, "commit", 0)
                      /\ \A i \in Range(arg[p].merge_ids) :
                             db[i].deleted_at # None
        IN  /\ pc[p] = "log" => Merged
            /\ pc[p] # "idle" /\ log # pre[p].log =>
                   /\ Merged
                   /\ ~arg[p].dry_run
                   /\ Len(log) = Len(pre[p].log) + 1
                   /\ SubSeq(log, 1, Len(pre[p].log)) = pre[p].log
                   /\ log[Len(log)].primary_id = arg[p].main_id
                   /\ log[Len(log)].merged_ids = arg[p].merge_ids
                   /\ \A e \in Range(events[p]) :
                          /\ e[1] \notin {"interrupt", "db_error", "log_error",
                                          "rollback"}
                          /\ e[1] = "return" => e[2] = 0
            /\ Done(p) /\ ret[p] # Returns(0) => log = pre[p].log

\* The second merge of a run has been logged after the first.
C26_Witness ==
    \E p \in Procs :
        /\ Done(p) /\ ret[p] = Returns(0)
        /\ Len(log) = 2 /\ Len(pre[p].log) = 1
        /\ log[2].primary_id = arg[p].main_id

\* C27: in interactive resolution the fields are asked about in order, and a
\* field is resolved, and the next one asked about, only on the input 1 (the
\* primary's value, kept_primary), 2 (the duplicate's value, kept_duplicate)
\* or s in either case (the primary's value, kept_primary); any other input
\* records nothing and the same field is asked again. The resolved fields are
\* thus the first n conflicting fields, n the number of valid inputs, each with
\* the value and tag of its own valid input, and the resolver has returned
\* only when there is one valid input per conflicting field.
C27_OneValidChoicePerField ==
    result.op = "ask" =>
        LET typed     == result.out[1]
            rv        == result.out[2]
            conflicts == _detect_conflicts(operands.main_user,
                                           operands.merge_user)
            fields    == Ordered(conflicts)
            valid     == SelectSeq(typed, LAMBDA c : c \in {"1", "2", "s", "S"})
            n         == IF Len(valid) < Len(fields) THEN Len(valid)
                         ELSE Len(fields)
        IN  /\ DOMAIN rv = {fields[i] : i \in 1..n}
            /\ \A i \in 1..n :
                   rv[fields[i]] =
                       IF valid[i] = "2"
                       THEN <<conflicts[fields[i]][2], "kept_duplicate">>
                       ELSE <<conflicts[fields[i]][1], "kept_primary">>

\* Of two conflicting fields the first was resolved to the duplicate's value
\* after an invalid input, and the second is still being asked about.
C27_Witness ==
    /\ result.op = "ask"
    /\ result.out[1] = <<"x", "2">>
    /\ Len(Ordered(_detect_conflicts(operands.main_user,
                                     operands.merge_user))) = 2
    /\ DOMAIN result.out[2] = {"email"}
    /\ result.out[2]["email"][2] = "kept_duplicate"

\* C28: after a successful merge, the final value of each mergeable field on
\* the primary is one of the values the field had before the call on the
\* primary or on a listed duplicate, and it is non-empty whenever one of those
\* records had a non-empty value for it.
C28_FinalValuesComeFromTheMerged ==
    \A p \in Procs :
        Done(p) /\ ret[p] = Returns(0) /\ ~arg[p].dry_run =>
            \A f \in Range(mergeable_fields) :
                LET olds == {pre[p].db[i][f] :
                                i \in {arg[p].main_id} \cup Range(arg[p].merge_ids)}
                IN  /\ db[arg[p].main_id][f] \in olds
                    /\ (\E v \in olds : Truthy(v)) =>
                           Truthy(db[arg[p].main_id][f])

\* A successful merge of two duplicates gave the primary a field it lacked,
\* from the second duplicate.
C28_Witness ==
    \E p \in Procs :
        /\ Done(p) /\ ret[p] = Returns(0) /\ ~arg[p].dry_run
        /\ Len(arg[p].merge_ids) = 2
        /\ \E f \in Range(mergeable_fields) :
               /\ ~Truthy(pre[p].db[arg[p].main_id][f])
               /\ ~Truthy(pre[p].db[arg[p].merge_ids[1]][f])
               /\ Truthy(db[arg[p].main_id][f])
               /\ db[arg[p].main_id][f] = pre[p].db[arg[p].merge_ids[2]][f]

\* C29: in every committed state of the store that create and merge
\* operations reach, no two records, soft-deleted or not, share a non-null
\* email; and a commit that would give the primary an email another record
\* holds, be it the duplicate the email was taken from, leaves the store as
\* it was.
C29_EmailsStayUnique ==
    /\ [](EmailUnique(db))
    /\ [][\A p \in Procs :
             LET m == arg[p].main_id IN
             /\ pc[p] \in {"commit", "with_exit"}
             /\ session[p].txn = "active"
             /\ m \in DOMAIN session[p].objs
             /\ session[p].objs[m].email # None
             /\ \E i \in DOMAIN db \ {m} :
                    db[i].email = session[p].objs[m].email
             => db' = db]_vars

\* A merge that resolved the primary's email to that of a created user has
\* failed at its commit.
C29_Witness ==
    \E p \in Procs :
        /\ Done(p) /\ ret[p] = Returns(1)
        /\ Happened(p, "db_error", 0)
        /\ result.op = "create" /\ result.out = <<"created">>
        /\ arg[p].merge_ids = <<Len(db)>>
        /\ db[Len(db)].email = <<"b">>
        /\ "email" \in TouchedFields(p)
        /\ db[arg[p].main_id].email = <<"a">>

\* C30: for the same store, primary and ordered list of duplicates, the set
\* of conflicting fields the dry run recorded for a duplicate equals the set
\* the merge itself detects for that duplicate, so that the preview omits no
\* conflict, not even one that the gap-fill of an earlier duplicate created.
C30_PreviewShowsMergeConflicts ==
    /\ Done(1) /\ arg[1].dry_run /\ ret[1] = Returns(0)
    /\ arg[2] = [arg[1] EXCEPT !.dry_run = FALSE]
    /\ pc[2] \in {"prompt", "apply"}
    => LET d         == merge_users[2][idx[2]]
           previewed == IF d \in DOMAIN all_conflicts[1]
                        THEN DOMAIN all_conflicts[1][d] ELSE {}
           detected  == DOMAIN resolved_values[2] \cup Range(pending[2])
       IN  previewed = detected
====
